---- MODULE Spec2Model ----
(***************************************************************************)
(* A model of src/tldr/tldr.py: the sentence segmenter                     *)
(* (_split_to_sentences) and the summary selector (_generate_summary).     *)
(*                                                                         *)
(* A Python str is a sequence of one-character strings.  Sentence values   *)
(* are naturals and the float arithmetic of the selector is carried out    *)
(* exactly, every comparison scaled by 100 (target_value is kept as        *)
(* 100 * target_value).                                                    *)
(*                                                                         *)
(* SpecSplit runs _split_to_sentences on a text, SpecSummary runs          *)
(* _generate_summary on a list of sentences and their values.              *)
(***************************************************************************)
EXTENDS Integers, Sequences, FiniteSets, TLC

VARIABLES
    pc,                       \* position of the running function
    text,                     \* _split_to_sentences: its parameter
    sentences,                \* _split_to_sentences: the coarse list (line 106);
                              \* _generate_summary: its parameter
    ends_with_dot,            \* _split_to_sentences: the pending flag (line 105)
    split_sentences,          \* _split_to_sentences: the returned list (line 120)
    sentence_value,           \* _generate_summary: its parameter
    percentage,               \* _generate_summary: its parameter
    mode,                     \* _generate_summary: its parameter
    summary_sentences,        \* _generate_summary: line 202, sorted at line 221
    summary_value,            \* _generate_summary: line 201
    summary_value_percentage, \* _generate_summary: line 222, <<numerator, denominator>>
    outcome                   \* "none", "returned" or "ZeroDivisionError"

vars == <<pc, text, sentences, ends_with_dot, split_sentences, sentence_value,
          percentage, mode, summary_sentences, summary_value,
          summary_value_percentage, outcome>>

----------------------------------------------------------------------------
(* Bounds of the model.                                                    *)

\* longest text of the exhaustive part of the segmenter's inputs
MaxTextLen == 5
\* most sentences of a document handed to the selector
MaxSentences == 3
\* largest value of one sentence
MaxValue == 2
\* the selector is called with the percentages 0, PctStep, 2*PctStep, ... and 100
PctStep == 10

\* percentage < 0 or percentage > 100 is refused (line 28)
MaxPercentage == 100

----------------------------------------------------------------------------
(* Python's str operations.                                                *)

Dot == "."
Space == " "

UpperCase == <<"A", "B", "C", "D", "E", "F", "G", "H", "I", "J", "K", "L", "M",
               "N", "O", "P", "Q", "R", "S", "T", "U", "V", "W", "X", "Y", "Z">>
LowerCase == <<"a", "b", "c", "d", "e", "f", "g", "h", "i", "j", "k", "l", "m",
               "n", "o", "p", "q", "r", "s", "t", "u", "v", "w", "x", "y", "z">>

\* str.lower() of one character
LowerChar(c) ==
    IF \E k \in 1..Len(UpperCase) : UpperCase[k] = c
    THEN LowerCase[CHOOSE k \in 1..Len(UpperCase) : UpperCase[k] = c]
    ELSE c

\* str.lower()
Lower(s) == [k \in 1..Len(s) |-> LowerChar(s[k])]

\* str.strip(): leading and trailing whitespace removed
RECURSIVE Strip(_)
Strip(s) ==
    IF s = <<>> THEN s
    ELSE IF Head(s) = Space THEN Strip(Tail(s))
    ELSE IF s[Len(s)] = Space THEN Strip(SubSeq(s, 1, Len(s) - 1))
    ELSE s

\* str.rfind(c): the 0-based index of the last c, -1 when there is none
RFind(s, c) ==
    IF \E k \in 1..Len(s) : s[k] = c
    THEN (CHOOSE k \in 1..Len(s) : s[k] = c /\ \A j \in (k+1)..Len(s) : s[j] # c) - 1
    ELSE -1

\* s[start:], start counted from the end when negative
SliceFrom(s, start) ==
    LET from == IF start < 0
                THEN (IF Len(s) + start < 0 THEN 0 ELSE Len(s) + start)
                ELSE (IF start > Len(s) THEN Len(s) ELSE start)
    IN  SubSeq(s, from + 1, Len(s))

\* str.split(c): the fragments between the occurrences of c
RECURSIVE Split(_, _)
Split(s, c) ==
    IF \E k \in 1..Len(s) : s[k] = c
    THEN LET first == CHOOSE k \in 1..Len(s) : s[k] = c /\ \A j \in 1..(k-1) : s[j] # c
         IN  <<SubSeq(s, 1, first - 1)>> \o Split(SubSeq(s, first + 1, Len(s)), c)
    ELSE <<s>>

\* ''.join(list)
RECURSIVE Join(_)
Join(list) == IF list = <<>> THEN <<>> ELSE Head(list) \o Join(Tail(list))

\* list[-1] += s
AddToLast(list, s) == [list EXCEPT ![Len(list)] = list[Len(list)] \o s]

----------------------------------------------------------------------------
(* words_with_dot.tokens: the words that end with a dot without ending a   *)
(* sentence.  The table is data of the repository that is not among the    *)
(* source files; it holds the words the specification names.               *)

tokens ==
    { <<"m", "r", ".">>, <<"d", "r", ".">>, <<"e", "t", "c", ".">>,
      <<"u", ".", "s", ".">> }
    \cup { <<LowerCase[k], ".">> : k \in 1..Len(LowerCase) }

----------------------------------------------------------------------------
(* _split_to_sentences                                                     *)

\* the first loop's turn with the merged fragment's dot (line 109) left out
CoarseStepDropsDot(st, i, sentence) ==
    IF Len(Strip(sentence)) <= 1 /\ i > 0
    THEN [sentences |-> AddToLast(st.sentences, sentence),
          ends_with_dot |-> IF Len(Strip(sentence)) = 1 THEN TRUE ELSE st.ends_with_dot]
    ELSE IF st.ends_with_dot /\ i > 0
    THEN [sentences |-> AddToLast(st.sentences, sentence \o <<Dot>>),
          ends_with_dot |-> FALSE]
    ELSE [sentences |-> Append(st.sentences, sentence \o <<Dot>>),
          ends_with_dot |-> st.ends_with_dot]

\* one turn of the first loop (lines 108-116) on fragment number i
CoarseStep(st, i, sentence) ==
    IF Len(Strip(sentence)) <= 1 /\ i > 0
    THEN [sentences |-> AddToLast(st.sentences, sentence \o <<Dot>>),
          ends_with_dot |-> IF Len(Strip(sentence)) = 1 THEN TRUE ELSE st.ends_with_dot]
    ELSE IF st.ends_with_dot /\ i > 0
    THEN [sentences |-> AddToLast(st.sentences, sentence \o <<Dot>>),
          ends_with_dot |-> FALSE]
    ELSE [sentences |-> Append(st.sentences, sentence \o <<Dot>>),
          ends_with_dot |-> st.ends_with_dot]

\* the first loop (line 107) from fragment number i on
RECURSIVE CoarseLoop(_, _, _)
CoarseLoop(fragments, i, st) ==
    IF i >= Len(fragments) THEN st
    ELSE CoarseLoop(fragments, i + 1, CoarseStep(st, i, fragments[i + 1]))

\* the last word of a coarse sentence as lines 122-123 take it
LastWord(sentence) == Lower(Strip(SliceFrom(sentence, RFind(sentence, Space))))

\* one turn of the second loop (lines 122-131) on coarse sentence number i
CombineStep(st, i, sentence) ==
    IF LastWord(sentence) \in tokens /\ i > 0
    THEN [split_sentences |-> AddToLast(st.split_sentences, sentence),
          ends_with_dot |-> TRUE]
    ELSE IF st.ends_with_dot /\ i > 0
    THEN [split_sentences |-> AddToLast(st.split_sentences, sentence),
          ends_with_dot |-> FALSE]
    ELSE [split_sentences |-> Append(st.split_sentences, sentence),
          ends_with_dot |-> st.ends_with_dot]

\* the second loop (line 121) from coarse sentence number i on
RECURSIVE CombineLoop(_, _, _)
CombineLoop(coarse, i, st) ==
    IF i >= Len(coarse) THEN st
    ELSE CombineLoop(coarse, i + 1, CombineStep(st, i, coarse[i + 1]))

----------------------------------------------------------------------------
(* The inputs of the segmenter.                                            *)

Alphabet == {Dot, Space, "a", "B"}

BoundedTexts == UNION { [1..n -> Alphabet] : n \in 0..MaxTextLen }

DrSmithText ==
    <<"D", "r", ".", " ", "S", "m", "i", "t", "h", " ", "w", "e", "n", "t", " ",
      "h", "o", "m", "e", ".", " ", "H", "e", " ", "l", "e", "f", "t", " ", "a",
      "t", " ", "5", " ", "p", ".", "m", ".", " ", "t", "o", "d", "a", "y", ".">>

Texts == BoundedTexts \cup {DrSmithText}

----------------------------------------------------------------------------
(* _generate_summary                                                       *)

\* ord(c) of the characters the sentences are made of
CodePoint(c) ==
    IF c = Dot THEN 46
    ELSE IF c = Space THEN 32
    ELSE IF \E k \in 1..Len(LowerCase) : LowerCase[k] = c
    THEN 96 + (CHOOSE k \in 1..Len(LowerCase) : LowerCase[k] = c)
    ELSE IF \E k \in 1..Len(UpperCase) : UpperCase[k] = c
    THEN 64 + (CHOOSE k \in 1..Len(UpperCase) : UpperCase[k] = c)
    ELSE 48

\* s < t of two str
RECURSIVE StrLess(_, _)
StrLess(s, t) ==
    IF t = <<>> THEN FALSE
    ELSE IF s = <<>> THEN TRUE
    ELSE IF CodePoint(Head(s)) # CodePoint(Head(t))
    THEN CodePoint(Head(s)) < CodePoint(Head(t))
    ELSE StrLess(Tail(s), Tail(t))

\* a < b of two tuples (value, sentence, position)
TupleLess(a, b) ==
    IF a[1] # b[1] THEN a[1] < b[1]
    ELSE IF a[2] # b[2] THEN StrLess(a[2], b[2])
    ELSE a[3] < b[3]

\* sum(list)
RECURSIVE Sum(_)
Sum(list) == IF list = <<>> THEN 0 ELSE Head(list) + Sum(Tail(list))

\* zip(sentence_value, sentences, range(len(sentences))), positions from 0
Zip(values, sents) ==
    [k \in 1..(IF Len(values) < Len(sents) THEN Len(values) ELSE Len(sents))
        |-> <<values[k], sents[k], k - 1>>]

\* a list without its element number k
Without(list, k) == SubSeq(list, 1, k - 1) \o SubSeq(list, k + 1, Len(list))

\* sorted(list, reverse=True) of tuples (line 186)
RECURSIVE SortedReverse(_)
SortedReverse(list) ==
    IF list = <<>> THEN <<>>
    ELSE LET top == CHOOSE k \in 1..Len(list) :
                        \A j \in 1..Len(list) : j = k \/ TupleLess(list[j], list[k])
         IN  <<list[top]>> \o SortedReverse(Without(list, top))

\* the selection left in the order the loop picked it (line 221 left out)
PickOrder(list) == list

\* sorted(list, key=itemgetter(2)) (line 221)
RECURSIVE SortByPosition(_)
SortByPosition(list) ==
    IF list = <<>> THEN <<>>
    ELSE LET low == CHOOSE k \in 1..Len(list) :
                        /\ \A j \in 1..Len(list) : list[k][3] <= list[j][3]
                        /\ \A j \in 1..(k-1) : list[j][3] # list[k][3]
         IN  <<list[low]>> \o SortByPosition(Without(list, low))

\* max_value (lines 188-191)
MaxValueOf(sents, values, m) ==
    IF m = "length" THEN Len(Join(sents)) ELSE Sum(values)

\* 100 * target_value with the share of the document left out (100 - percentage)
TargetValueOfRest(pct, max_value, m) ==
    IF m = "best" THEN 100 * (max_value + 1) ELSE (100 - pct) * max_value

\* 100 * target_value (lines 193-197)
TargetValue(pct, max_value, m) ==
    IF m = "best" THEN 100 * (max_value + 1) ELSE pct * max_value

\* what sentence number i of the ranking adds to summary_value (lines 203, 211-214, 218)
NextSentenceValue(evaluated, i, m) ==
    IF m = "length" THEN Len(evaluated[i + 1][2]) ELSE evaluated[i + 1][1]

\* the loop's test with > in the place of >=
ContinueStrict(target100, value, next) ==
    target100 - 100 * value > 100 * (value + next) - target100

\* the loop's test (line 207), target100 being 100 * target_value
Continue(target100, value, next) ==
    target100 - 100 * value >= 100 * (value + next) - target100

\* the 'best' test with <= in the place of <
BelowOrAtAverage(v, values) == v * Len(values) <= Sum(values)

\* evaluated_sentences[i][0] < average_value (lines 199, 208)
BelowAverage(v, values) == v * Len(values) < Sum(values)

\* the loop with its body run once before the test (a do-while)
RECURSIVE SelectLoopBodyFirst(_, _, _, _, _)
SelectLoopBodyFirst(evaluated, values, target100, m, st) ==
    LET i == Len(st.summary_sentences)
        next == NextSentenceValue(evaluated, i, m)
        more == [summary_sentences |-> Append(st.summary_sentences, evaluated[i + 1]),
                 summary_value |-> st.summary_value + next]
    IN  IF m = "best" /\ BelowAverage(evaluated[i + 1][1], values) THEN st
        ELSE IF i + 1 >= Len(evaluated) THEN more
        ELSE IF ~Continue(target100, more.summary_value,
                          NextSentenceValue(evaluated, i + 1, m)) THEN more
        ELSE SelectLoopBodyFirst(evaluated, values, target100, m, more)

\* the while loop (lines 205-218); i is the number of sentences picked so far
RECURSIVE SelectLoop(_, _, _, _, _)
SelectLoop(evaluated, values, target100, m, st) ==
    LET i == Len(st.summary_sentences)
        next == NextSentenceValue(evaluated, i, m)
        more == [summary_sentences |-> Append(st.summary_sentences, evaluated[i + 1]),
                 summary_value |-> st.summary_value + next]
    IN  IF ~Continue(target100, st.summary_value, next) THEN st
        ELSE IF m = "best" /\ BelowAverage(evaluated[i + 1][1], values) THEN st
        ELSE IF i + 1 >= Len(evaluated) THEN more
        ELSE SelectLoop(evaluated, values, target100, m, more)

\* _generate_summary (lines 185-224): the selection in document order, its
\* total, and the coverage as the fraction of line 222
Summary(sents, values, pct, m) ==
    LET evaluated == SortedReverse(Zip(values, sents))
        max_value == MaxValueOf(sents, values, m)
        target100 == TargetValue(pct, max_value, m)
        picked == SelectLoop(evaluated, values, target100, m,
                             [summary_sentences |-> <<>>, summary_value |-> 0])
    IN  [summary_sentences |-> SortByPosition(picked.summary_sentences),
         summary_value |-> picked.summary_value,
         summary_value_percentage |-> <<picked.summary_value * 100, max_value>>,
         outcome |-> IF max_value = 0 THEN "ZeroDivisionError" ELSE "returned"]

----------------------------------------------------------------------------
(* The inputs of the selector.                                             *)

\* the sentences a document is made of
SummaryTexts == { <<"a", ".">>, <<"a", "b", ".">> }

Documents ==
    UNION { [1..n -> SummaryTexts \X (0..MaxValue)] : n \in 1..MaxSentences }

Percentages == { p \in 0..MaxPercentage : p % PctStep = 0 } \cup {MaxPercentage}

Modes == {"value", "length", "best"}

----------------------------------------------------------------------------
(* The segmenter as a state machine.                                       *)

InitSplit ==
    /\ pc = "split"
    /\ text \in Texts
    /\ sentences = <<>>
    /\ ends_with_dot = FALSE
    /\ split_sentences = <<>>
    /\ sentence_value = <<>>
    /\ percentage = 0
    /\ mode = "value"
    /\ summary_sentences = <<>>
    /\ summary_value = 0
    /\ summary_value_percentage = <<0, 0>>
    /\ outcome = "none"

\* lines 105-116: the coarse split on the dot character
CoarseSplit ==
    /\ pc = "split"
    /\ LET st == CoarseLoop(Split(text, Dot), 0,
                            [sentences |-> <<>>, ends_with_dot |-> FALSE])
       IN  /\ sentences' = st.sentences
           /\ ends_with_dot' = st.ends_with_dot
    /\ pc' = "combine"
    /\ UNCHANGED <<text, split_sentences, sentence_value, percentage, mode,
                   summary_sentences, summary_value, summary_value_percentage,
                   outcome>>

\* lines 118-133: the coarse sentences combined by the table of words; the loop
\* starts with ends_with_dot as the first loop left it (no assignment between)
CombineSentences ==
    /\ pc = "combine"
    /\ LET st == CombineLoop(sentences, 0,
                             [split_sentences |-> <<>>,
                              ends_with_dot |-> ends_with_dot])
       IN  /\ split_sentences' = st.split_sentences
           /\ ends_with_dot' = st.ends_with_dot
    /\ pc' = "split_done"
    /\ outcome' = "returned"
    /\ UNCHANGED <<text, sentences, sentence_value, percentage, mode,
                   summary_sentences, summary_value, summary_value_percentage>>

NextSplit == CoarseSplit \/ CombineSentences

SpecSplit == InitSplit /\ [][NextSplit]_vars

----------------------------------------------------------------------------
(* The selector as a state machine.                                        *)

InitSummary ==
    /\ pc = "summary"
    /\ \E d \in Documents :
          /\ sentences = [k \in DOMAIN d |-> d[k][1]]
          /\ sentence_value = [k \in DOMAIN d |-> d[k][2]]
    /\ text = <<>>
    /\ ends_with_dot = FALSE
    /\ split_sentences = <<>>
    /\ percentage = 0
    /\ mode = "value"
    /\ summary_sentences = <<>>
    /\ summary_value = 0
    /\ summary_value_percentage = <<0, 0>>
    /\ outcome = "none"

\* one call of _generate_summary(sentences, sentence_value, pct, m)
GenerateSummary ==
    /\ pc = "summary"
    /\ \E pct \in Percentages, m \in Modes :
          LET r == Summary(sentences, sentence_value, pct, m)
          IN  /\ percentage' = pct
              /\ mode' = m
              /\ summary_sentences' = r.summary_sentences
              /\ summary_value' = r.summary_value
              /\ summary_value_percentage' = r.summary_value_percentage
              /\ outcome' = r.outcome
    /\ pc' = "summary_done"
    /\ UNCHANGED <<text, sentences, ends_with_dot, split_sentences, sentence_value>>

NextSummary == GenerateSummary

SpecSummary == InitSummary /\ [][NextSummary]_vars

----------------------------------------------------------------------------
(* Properties of the segmenter, checked under SpecSplit.                   *)

\* the last word of a str: str.split()[-1], lowercased ('' when there is none)
RECURSIVE LastToken(_)
LastToken(s) ==
    LET t == Strip(s)
    IN  IF \E k \in 1..Len(t) : t[k] = Space
        THEN LastToken(SliceFrom(t, RFind(t, Space) + 1))
        ELSE Lower(t)

\* C4: the returned sentences, concatenated in order, are the input text
\* followed by exactly one added dot: nothing is dropped, doubled or reordered.
C4_RoundTrip ==
    pc = "split_done" => Join(split_sentences) = text \o <<Dot>>

\* C4's case: a text in which the first loop merged a fragment and the second
\* loop merged a coarse sentence.
C4_Witness ==
    /\ pc = "split_done"
    /\ Len(split_sentences) < Len(sentences)
    /\ Len(sentences) < Len(Split(text, Dot))
    /\ Len(text) > 0

\* C5: no returned sentence but the last ends at a word of the table, and the
\* text "Dr. Smith went home. He left at 5 p.m. today." comes back as exactly
\* two sentences, the first "Dr. Smith went home.".
C5_AbbreviationsNeverSplit ==
    pc = "split_done" =>
        /\ \A k \in 1..(Len(split_sentences) - 1) :
              LastToken(split_sentences[k]) \notin tokens
        /\ text = DrSmithText =>
              /\ Len(split_sentences) = 2
              /\ split_sentences[1] = SubSeq(DrSmithText, 1, 20)

\* C10: the second loop's result is that of the second loop started with the
\* flag cleared: it depends on the coarse sentences alone.
C10_FlagClearedBetweenLoops ==
    pc = "split_done" =>
        split_sentences =
            CombineLoop(sentences, 0,
                        [split_sentences |-> <<>>, ends_with_dot |-> FALSE]).split_sentences

----------------------------------------------------------------------------
(* Properties of the selector, checked under SpecSummary.                  *)

Abs(x) == IF x < 0 THEN -x ELSE x

\* a <= b of two fractions <<numerator, denominator>> with positive denominators
FracLe(a, b) == a[1] * b[2] <= b[1] * a[2]

\* what sentence number k (from 1) of the document adds to the total
Contribution(k) == IF mode = "length" THEN Len(sentences[k]) ELSE sentence_value[k]

\* the document's total under the call's mode
Total == IF mode = "length" THEN Len(Join(sentences)) ELSE Sum(sentence_value)

\* the tuple the ranking puts first: the greatest of the document's tuples
FirstRanked ==
    LET zipped == { <<sentence_value[k], sentences[k], k - 1>> : k \in DOMAIN sentences }
    IN  CHOOSE t \in zipped : \A u \in zipped : u = t \/ TupleLess(u, t)

\* C1: the selection comes back in strictly increasing order of position in
\* the document, so no sentence comes back twice.
C1_SortedByPosition ==
    pc = "summary_done" =>
        \A j, k \in 1..Len(summary_sentences) :
            j < k => summary_sentences[j][3] < summary_sentences[k][3]

\* C1's case: two returned sentences of which the later one in the document
\* ranks higher, so the loop picked it first.
C1_Witness ==
    /\ pc = "summary_done"
    /\ outcome = "returned"
    /\ \E j, k \in 1..Len(summary_sentences) :
          /\ j < k
          /\ summary_sentences[j][1] < summary_sentences[k][1]

\* C2 as stated: a document of one sentence comes back as that sentence with
\* coverage 100, whatever the mode and the percentage.
C2_SingleSentenceAlwaysFull ==
    (pc = "summary_done" /\ Len(sentences) = 1) =>
        /\ outcome = "returned"
        /\ Len(summary_sentences) = 1
        /\ summary_sentences[1][2] = sentences[1]
        /\ summary_value_percentage[1] = 100 * summary_value_percentage[2]

\* C2 amended: for a document of one sentence the loop picks the sentence in
\* mode best at every percentage, and in modes value and length exactly when
\* the percentage is at least 50 or the sentence adds 0; a picked sentence
\* gives coverage 100 and an empty selection coverage 0 when the total is
\* positive, and a total of 0 ends the call in ZeroDivisionError.
C2_SingleSentenceAmended ==
    (pc = "summary_done" /\ Len(sentences) = 1) =>
        LET c == Contribution(1)
            picked == mode = "best" \/ percentage >= 50 \/ c = 0
        IN  /\ picked => /\ summary_sentences = <<<<sentence_value[1], sentences[1], 0>>>>
                         /\ summary_value = c
            /\ ~picked => /\ summary_sentences = <<>>
                          /\ summary_value = 0
            /\ c > 0 => /\ outcome = "returned"
                        /\ summary_value_percentage[2] > 0
                        /\ summary_value_percentage[1] =
                              (IF picked THEN 100 ELSE 0) * summary_value_percentage[2]
            /\ c = 0 => outcome = "ZeroDivisionError"

\* C2's case: one sentence of positive value, mode value, a percentage under
\* 50: nothing is returned and the coverage is 0.
C2_Witness ==
    /\ pc = "summary_done"
    /\ Len(sentences) = 1
    /\ mode = "value"
    /\ percentage < 50
    /\ sentence_value[1] > 0
    /\ outcome = "returned"
    /\ summary_sentences = <<>>
    /\ summary_value_percentage[1] = 0

\* C3: in mode value, a call with a percentage at least as large returns at
\* least as many sentences and at least as large a coverage.
C3_MonotoneInPercentage ==
    (pc = "summary_done" /\ mode = "value" /\ outcome = "returned") =>
        \A p2 \in Percentages :
            p2 >= percentage =>
                LET r2 == Summary(sentences, sentence_value, p2, "value")
                IN  /\ r2.outcome = "returned"
                    /\ Len(r2.summary_sentences) >= Len(summary_sentences)
                    /\ FracLe(summary_value_percentage, r2.summary_value_percentage)

\* C3's case: a larger percentage that returns strictly more sentences and a
\* strictly larger coverage.
C3_Witness ==
    /\ pc = "summary_done"
    /\ mode = "value"
    /\ outcome = "returned"
    /\ Len(summary_sentences) >= 1
    /\ \E p2 \in Percentages :
          /\ p2 > percentage
          /\ LET r2 == Summary(sentences, sentence_value, p2, "value")
             IN  /\ Len(r2.summary_sentences) > Len(summary_sentences)
                 /\ ~FracLe(r2.summary_value_percentage, summary_value_percentage)

\* C6: a document whose total is 0 does not end in a division fault: it is
\* reported as an error of its own or answered by an empty summary at 0.
C6_ZeroTotalHandled ==
    (pc = "summary_done" /\ Total = 0) =>
        \/ outcome = "DegenerateInputError"
        \/ /\ outcome = "returned"
           /\ summary_sentences = <<>>
           /\ summary_value_percentage[1] = 0

\* C7: in modes value and length no subset of the document's sentences has a
\* total strictly closer to the target than the returned summary's.
C7_ClosestToTarget ==
    (pc = "summary_done" /\ mode \in {"value", "length"} /\ outcome = "returned") =>
        \A chosen \in SUBSET (DOMAIN sentences) :
            LET RECURSIVE TotalOf(_)
                TotalOf(set) ==
                    IF set = {} THEN 0
                    ELSE LET k == CHOOSE x \in set : TRUE
                         IN  Contribution(k) + TotalOf(set \ {k})
            IN  Abs(100 * TotalOf(chosen) - percentage * Total)
                    >= Abs(100 * summary_value - percentage * Total)

C9_AtLeastOneSentence ==
    (pc = "summary_done" /\ mode \in {"value", "length"} /\ outcome = "returned") =>
        Len(summary_sentences) >= 1

\* C9 amended: in modes value and length the loop picks at least one sentence
\* exactly when the first-ranked sentence adds at most twice the target
\* (percentage / 100 of the total): the test of line 207 comes before the
\* first addition too.
C9_FirstPickedIffWithinTarget ==
    (pc = "summary_done" /\ mode \in {"value", "length"}) =>
        LET first == IF mode = "length" THEN Len(FirstRanked[2]) ELSE FirstRanked[1]
        IN  (Len(summary_sentences) >= 1) <=> (2 * percentage * Total >= 100 * first)

\* C9's case: percentage 0 in mode value on a document of positive total:
\* the call returns no sentence.
C9_Witness ==
    /\ pc = "summary_done"
    /\ mode = "value"
    /\ percentage = 0
    /\ outcome = "returned"
    /\ summary_sentences = <<>>

====
